---- MODULE Spec2Model ----
(***************************************************************************)
(* Model of the Datadog forwarder subscription phase of the serverless     *)
(* plugin: forwarder.ts (config interpreter, naming transform, forwarder   *)
(* validation, subscription quota check, execution log group synthesizer,  *)
(* subscription decision engine) and its caller afterPackageFunction in    *)
(* index.ts.                                                               *)
(*                                                                         *)
(* JavaScript strings the code inspects (startsWith, replace, template     *)
(* concatenation) are sequences of one-character strings.  JavaScript      *)
(* values of unknown type (the raw `logs` configuration) are tagged        *)
(* records [t |-> <typeof-like tag>, ...].                                 *)
(***************************************************************************)
EXTENDS Integers, Sequences, FiniteSets, TLC

(***************************************************************************)
(* Bounds of the model.                                                    *)
(***************************************************************************)
MaxResources == 2
MaxFilters == 3
MaxNameLen == 3
MaxCalls == 2

(***************************************************************************)
(* Strings.                                                                *)
(***************************************************************************)
StartsWith(s, p) == Len(p) <= Len(s) /\ SubSeq(s, 1, Len(p)) = p

LowerCaseLetters ==
  <<"a","b","c","d","e","f","g","h","i","j","k","l","m",
    "n","o","p","q","r","s","t","u","v","w","x","y","z">>

UpperCaseLetters ==
  <<"A","B","C","D","E","F","G","H","I","J","K","L","M",
    "N","O","P","Q","R","S","T","U","V","W","X","Y","Z">>

toUpperCase(c) ==
  IF \E i \in 1..Len(LowerCaseLetters) : LowerCaseLetters[i] = c
  THEN UpperCaseLetters[CHOOSE i \in 1..Len(LowerCaseLetters) : LowerCaseLetters[i] = c]
  ELSE c

RECURSIVE replaceAll(_, _, _)
replaceAll(s, c, token) ==
  IF s = <<>> THEN <<>>
  ELSE (IF Head(s) = c THEN token ELSE <<Head(s)>>) \o replaceAll(Tail(s), c, token)

DashToken == <<"D","a","s","h">>
UnderscoreToken == <<"U","n","d","e","r","s","c","o","r","e">>
LogGroupSuffix == <<"L","o","g","G","r","o","u","p">>
SubscriptionSuffix == <<"S","u","b","s","c","r","i","p","t","i","o","n">>

(***************************************************************************)
(* Naming transform.                                                       *)
(***************************************************************************)
\* (mutation) the second replace is missing
getLogGroupLogicalIdNoUnderscore(functionName) ==
  IF functionName = <<>> THEN <<>>
  ELSE LET upperCasedFunctionName == <<toUpperCase(functionName[1])>> \o Tail(functionName)
           normalizedFunctionName == replaceAll(upperCasedFunctionName, "-", DashToken)
       IN  normalizedFunctionName \o LogGroupSuffix

getLogGroupLogicalId(functionName) ==
  IF functionName = <<>> THEN <<>>
  ELSE LET uppercasedFirst == toUpperCase(functionName[1])
           rest == Tail(functionName)
           upperCasedFunctionName == <<uppercasedFirst>> \o rest
           normalizedFunctionName ==
             replaceAll(replaceAll(upperCasedFunctionName, "-", DashToken), "_", UnderscoreToken)
       IN  normalizedFunctionName \o LogGroupSuffix

(***************************************************************************)
(* JavaScript values of the raw logging configuration.                     *)
(***************************************************************************)
Undefined == [t |-> "undefined"]
Null == [t |-> "null"]
Bool(b) == [t |-> "boolean", v |-> b]
NumberValue == [t |-> "number"]
StringValue == [t |-> "string"]
Obj(f) == [t |-> "object", f |-> f]

\* typeof x: null is an "object"
TypeOf(x) == IF x.t = "null" THEN "object" ELSE x.t

\* obj.hasOwnProperty(k), for a non-null object
HasOwnProperty(obj, k) == k \in DOMAIN obj.f

\* obj?.k : undefined for null/undefined, undefined on a primitive
Get(obj, k) ==
  IF obj.t = "object" /\ k \in DOMAIN obj.f THEN obj.f[k] ELSE Undefined

IsTrue(x) == x.t = "boolean" /\ x.v = TRUE
IsFalse(x) == x.t = "boolean" /\ x.v = FALSE

(***************************************************************************)
(* Config interpreter: shape check.  The result is "true", "false", or     *)
(* "TypeError" (hasOwnProperty read on null).                              *)
(***************************************************************************)
isSubLogsConfig(obj) ==
  IF TypeOf(obj) = "boolean" THEN "true"
  ELSE IF TypeOf(obj) # "object" THEN "false"
  ELSE IF obj.t = "null" THEN "TypeError"
  ELSE IF HasOwnProperty(obj, "accessLogging")
          /\ TypeOf(obj.f["accessLogging"]) # "boolean"
          \* typeof x !== undefined compares a string with undefined: always true
          /\ TRUE
       THEN "false"
  ELSE IF HasOwnProperty(obj, "executionLogging")
          /\ TypeOf(obj.f["executionLogging"]) # "boolean"
          /\ TRUE
       THEN "false"
  ELSE "true"

isLogsConfig(obj) ==
  IF TypeOf(obj) # "object" THEN "false"
  ELSE IF obj.t = "null" THEN "TypeError"
  ELSE IF HasOwnProperty(obj, "restApi") /\ isSubLogsConfig(obj.f["restApi"]) # "true"
       THEN isSubLogsConfig(obj.f["restApi"])
  ELSE IF HasOwnProperty(obj, "httpApi") /\ isSubLogsConfig(obj.f["httpApi"]) # "true"
       THEN isSubLogsConfig(obj.f["httpApi"])
  ELSE IF HasOwnProperty(obj, "websocket") /\ isSubLogsConfig(obj.f["websocket"]) # "true"
       THEN isSubLogsConfig(obj.f["websocket"])
  ELSE "true"

(***************************************************************************)
(* Config interpreter: the five enablement flags.                          *)
(***************************************************************************)
\* (mutation) the object's executionLogging also turns access logging on
restAccessLoggingIsEnabledAnySubFlag(obj) ==
  IF IsFalse(Get(obj, "restApi")) THEN FALSE
  ELSE \/ IsTrue(Get(obj, "restApi"))
       \/ IsTrue(Get(Get(obj, "restApi"), "accessLogging"))
       \/ IsTrue(Get(Get(obj, "restApi"), "executionLogging"))

restAccessLoggingIsEnabled(obj) ==
  IF IsFalse(Get(obj, "restApi")) THEN FALSE
  ELSE IsTrue(Get(obj, "restApi")) \/ IsTrue(Get(Get(obj, "restApi"), "accessLogging"))

restExecutionLoggingIsEnabled(obj) ==
  IF IsFalse(Get(obj, "restApi")) THEN FALSE
  ELSE IsTrue(Get(obj, "restApi")) \/ IsTrue(Get(Get(obj, "restApi"), "executionLogging"))

httpAccessLoggingIsEnabled(obj) ==
  IF IsFalse(Get(obj, "httpApi")) THEN FALSE
  ELSE IsTrue(Get(obj, "httpApi")) \/ IsTrue(Get(Get(obj, "httpApi"), "accessLogging"))

websocketAccessLoggingIsEnabled(obj) ==
  IF IsFalse(Get(obj, "websocket")) THEN FALSE
  ELSE IsTrue(Get(obj, "websocket")) \/ IsTrue(Get(Get(obj, "websocket"), "accessLogging"))

websocketExecutionLoggingIsEnabled(obj) ==
  IF IsFalse(Get(obj, "websocket")) THEN FALSE
  ELSE IsTrue(Get(obj, "websocket")) \/ IsTrue(Get(Get(obj, "websocket"), "executionLogging"))

(***************************************************************************)
(* Resource graph: compiledCloudFormationTemplate?.Resources.  A JavaScript*)
(* object keeps its string keys in insertion order, so the graph is a      *)
(* sequence of [name, resource] entries with distinct names.               *)
(***************************************************************************)
logGroupKey == "AWS::Logs::LogGroup"
logGroupSubscriptionKey == "AWS::Logs::SubscriptionFilter"
maxAllowableLogGroupSubscriptions == 2

REST_EXECUTION_LOG_GROUP_KEY ==
  <<"R","e","s","t","E","x","e","c","u","t","i","o","n">> \o LogGroupSuffix
REST_EXECUTION_SUBSCRIPTION_KEY == REST_EXECUTION_LOG_GROUP_KEY \o SubscriptionSuffix
WEBSOCKETS_EXECUTION_LOG_GROUP_KEY ==
  <<"W","e","b","s","o","c","k","e","t","s","E","x","e","c","u","t","i","o","n">> \o LogGroupSuffix
WEBSOCKETS_EXECUTION_SUBCRIPTION_KEY == WEBSOCKETS_EXECUTION_LOG_GROUP_KEY \o SubscriptionSuffix

Literal(s) == [t |-> "string", s |-> s]
Ref(name) == [t |-> "object", Ref |-> name]

KeysOf(resources) == {resources[i].name : i \in 1..Len(resources)}

HasKey(resources, name) == name \in KeysOf(resources)

Lookup(resources, name) ==
  resources[CHOOSE i \in 1..Len(resources) : resources[i].name = name].resource

\* (mutation) an assignment always adds an entry
SetEntryAppend(resources, name, value) ==
  Append(resources, [name |-> name, resource |-> value])

\* resources[name] = value
SetEntry(resources, name, value) ==
  IF HasKey(resources, name)
  THEN [i \in 1..Len(resources) |->
          IF resources[i].name = name THEN [name |-> name, resource |-> value]
          ELSE resources[i]]
  ELSE Append(resources, [name |-> name, resource |-> value])

isLogGroup(value) == value.Type = logGroupKey

(***************************************************************************)
(* Function existence validator.  The result is the error thrown, if any.  *)
(***************************************************************************)
\* (mutation) the request error is swallowed
validateForwarderArnSwallow(getFunctionOk) == "none"

validateForwarderArn(getFunctionOk) ==
  IF getFunctionOk THEN "none" ELSE "DatadogForwarderNotFoundError"

(***************************************************************************)
(* Subscription quota enforcer.  A response of the log service is          *)
(* [ok, subscriptionFilters]; a failed request carries no filters.         *)
(***************************************************************************)
\* (mutation) a failed request counts as a log group whose quota is used up
describeSubscriptionFiltersFailedIsFull(response) ==
  IF response.ok THEN response.subscriptionFilters
  ELSE [i \in 1..2 |-> [filterName |-> <<"u","n","k","n","o","w","n">>]]

describeSubscriptionFilters(response) ==
  IF response.ok THEN response.subscriptionFilters ELSE <<>>

RECURSIVE foundDatadogSubscriptionFilter(_, _)
foundDatadogSubscriptionFilter(subscriptionFilters, expectedSubName) ==
  IF subscriptionFilters = <<>> THEN FALSE
  ELSE IF StartsWith(Head(subscriptionFilters).filterName, expectedSubName) THEN TRUE
  ELSE foundDatadogSubscriptionFilter(Tail(subscriptionFilters), expectedSubName)

\* (mutation) the quota is compared with > instead of >=
canSubscribeLogGroupOffByOne(response, expectedSubName) ==
  LET subscriptionFilters == describeSubscriptionFilters(response)
      numberOfActiveSubscriptionFilters == Len(subscriptionFilters)
  IN  ~(~foundDatadogSubscriptionFilter(subscriptionFilters, expectedSubName)
        /\ numberOfActiveSubscriptionFilters > maxAllowableLogGroupSubscriptions)

canSubscribeLogGroup(response, expectedSubName) ==
  LET subscriptionFilters == describeSubscriptionFilters(response)
      numberOfActiveSubscriptionFilters == Len(subscriptionFilters)
  IN  IF ~foundDatadogSubscriptionFilter(subscriptionFilters, expectedSubName)
         /\ numberOfActiveSubscriptionFilters >= maxAllowableLogGroupSubscriptions
      THEN FALSE
      ELSE TRUE

\* `${service}-${stage}-${scopedSubName}-`, or `${stackName}-${scopedSubName}-`
\* when aws.naming.getStackName() is truthy (a non-empty string)
expectedSubNameOf(serviceName, stageName, stackName, scopedSubName) ==
  IF stackName # <<>>
  THEN stackName \o <<"-">> \o scopedSubName \o <<"-">>
  ELSE serviceName \o <<"-">> \o stageName \o <<"-">> \o scopedSubName \o <<"-">>

(***************************************************************************)
(* Eligibility of one resource.                                            *)
(***************************************************************************)
AwsLambdaPrefix == <<"/","a","w","s","/","l","a","m","b","d","a","/">>
AwsApiGatewayPrefix == <<"/","a","w","s","/","a","p","i","-","g","a","t","e","w","a","y","/">>
AwsHttpApiPrefix == <<"/","a","w","s","/","h","t","t","p","-","a","p","i","/">>
AwsWebsocketPrefix == <<"/","a","w","s","/","w","e","b","s","o","c","k","e","t","/">>

\* (mutation) the subscribe flag is not consulted
validateRestApiSubscriptionIgnoreSubscribe(resource, subscribe, extendedProvider) ==
  /\ restAccessLoggingIsEnabled(extendedProvider)
  /\ StartsWith(resource.Properties.LogGroupName.s, AwsApiGatewayPrefix)

validateRestApiSubscription(resource, subscribe, extendedProvider) ==
  /\ restAccessLoggingIsEnabled(extendedProvider)
  /\ StartsWith(resource.Properties.LogGroupName.s, AwsApiGatewayPrefix)
  /\ subscribe

validateHttpApiSubscription(resource, subscribe, extendedProvider) ==
  /\ httpAccessLoggingIsEnabled(extendedProvider)
  /\ StartsWith(resource.Properties.LogGroupName.s, AwsHttpApiPrefix)
  /\ subscribe

validateWebsocketSubscription(resource, subscribe, extendedProvider) ==
  /\ websocketAccessLoggingIsEnabled(extendedProvider)
  /\ StartsWith(resource.Properties.LogGroupName.s, AwsWebsocketPrefix)
  /\ subscribe

ValidateAnyApiSubscription(resource, subscribe, extendedProvider) ==
  \/ validateRestApiSubscription(resource, subscribe, extendedProvider)
  \/ validateHttpApiSubscription(resource, subscribe, extendedProvider)
  \/ validateWebsocketSubscription(resource, subscribe, extendedProvider)

\* (mutation) extension mode does not filter
shouldSubscribeIgnoreExtension(resourceName, resource, fwdConfigs, handlerList, extendedProvider) ==
  IF ~isLogGroup(resource) THEN FALSE
  ELSE IF resource.Properties.LogGroupName.t # "string" THEN FALSE
  ELSE IF ~(\/ StartsWith(resource.Properties.LogGroupName.s, AwsLambdaPrefix)
            \/ ValidateAnyApiSubscription(resource, fwdConfigs.SubToAccessLogGroups, extendedProvider))
       THEN FALSE
  ELSE IF /\ StartsWith(resource.Properties.LogGroupName.s, AwsLambdaPrefix)
          /\ ~(\E i \in 1..Len(handlerList) : getLogGroupLogicalId(handlerList[i]) = resourceName)
       THEN FALSE
  ELSE TRUE

\* (mutation) a lambda-level log group is not matched against the handlers
shouldSubscribeAnyLambda(resourceName, resource, fwdConfigs, handlerList, extendedProvider) ==
  IF ~isLogGroup(resource) THEN FALSE
  ELSE IF resource.Properties.LogGroupName.t # "string" THEN FALSE
  ELSE IF fwdConfigs.AddExtension
          /\ ~ValidateAnyApiSubscription(resource, fwdConfigs.SubToAccessLogGroups, extendedProvider)
       THEN FALSE
  ELSE IF ~(\/ StartsWith(resource.Properties.LogGroupName.s, AwsLambdaPrefix)
            \/ ValidateAnyApiSubscription(resource, fwdConfigs.SubToAccessLogGroups, extendedProvider))
       THEN FALSE
  ELSE TRUE

shouldSubscribe(resourceName, resource, fwdConfigs, handlerList, extendedProvider) ==
  IF ~isLogGroup(resource) THEN FALSE
  ELSE IF resource.Properties.LogGroupName.t # "string" THEN FALSE
  ELSE IF fwdConfigs.AddExtension
          /\ ~ValidateAnyApiSubscription(resource, fwdConfigs.SubToAccessLogGroups, extendedProvider)
       THEN FALSE
  ELSE IF ~(\/ StartsWith(resource.Properties.LogGroupName.s, AwsLambdaPrefix)
            \/ ValidateAnyApiSubscription(resource, fwdConfigs.SubToAccessLogGroups, extendedProvider))
       THEN FALSE
  ELSE IF /\ StartsWith(resource.Properties.LogGroupName.s, AwsLambdaPrefix)
          /\ ~(\E i \in 1..Len(handlerList) : getLogGroupLogicalId(handlerList[i]) = resourceName)
       THEN FALSE
  ELSE TRUE

\* (mutation) the log group is given as a plain string instead of a Ref
subscribeToLogGroupByName(arn, name) ==
  [Type |-> logGroupSubscriptionKey,
   Properties |-> [DestinationArn |-> arn, FilterPattern |-> <<>>, LogGroupName |-> Literal(name)]]

subscribeToLogGroup(arn, name) ==
  [Type |-> logGroupSubscriptionKey,
   Properties |-> [DestinationArn |-> arn, FilterPattern |-> <<>>, LogGroupName |-> Ref(name)]]

(***************************************************************************)
(* Execution log group synthesizer.                                        *)
(***************************************************************************)
createRestExecutionLogGroupName(stageName) ==
  [t |-> "object",
   FnJoin |-> <<"", <<"API-Gateway-Execution-Logs_", [Ref |-> "ApiGatewayRestApi"], "/", stageName>> >>]

createWebsocketExecutionLogGroupName(stageName) ==
  [t |-> "object",
   FnJoin |-> <<"", <<"/aws/apigateway/", [Ref |-> "WebsocketsApi"], "/", stageName>> >>]

addExecutionLogGroup(logGroupName) ==
  [Type |-> "AWS::Logs::LogGroup", Properties |-> [LogGroupName |-> logGroupName]]

\* (mutation) the subscription names its log group by a string, not by Ref
subscribeToExecutionLogGroupByName(arn, executionLogGroupKey) ==
  [Type |-> logGroupSubscriptionKey,
   Properties |-> [DestinationArn |-> arn, FilterPattern |-> <<>>,
                   LogGroupName |-> Literal(executionLogGroupKey)]]

subscribeToExecutionLogGroup(arn, executionLogGroupKey) ==
  [Type |-> logGroupSubscriptionKey,
   Properties |-> [DestinationArn |-> arn, FilterPattern |-> <<>>,
                   LogGroupName |-> Ref(executionLogGroupKey)]]

\* The graph after the REST block (lines 98-106) and after the WebSocket
\* block (lines 108-116), for a graph that is present.
RestBlock(resources, extendedProvider, arn, stageName) ==
  IF restExecutionLoggingIsEnabled(extendedProvider)
  THEN SetEntry(
         SetEntry(resources, REST_EXECUTION_LOG_GROUP_KEY,
                  addExecutionLogGroup(createRestExecutionLogGroupName(stageName))),
         REST_EXECUTION_SUBSCRIPTION_KEY,
         subscribeToExecutionLogGroup(arn, REST_EXECUTION_LOG_GROUP_KEY))
  ELSE resources

WebsocketBlock(resources, extendedProvider, arn, stageName) ==
  IF websocketExecutionLoggingIsEnabled(extendedProvider)
  THEN SetEntry(
         SetEntry(resources, WEBSOCKETS_EXECUTION_LOG_GROUP_KEY,
                  addExecutionLogGroup(createWebsocketExecutionLogGroupName(stageName))),
         WEBSOCKETS_EXECUTION_SUBCRIPTION_KEY,
         subscribeToExecutionLogGroup(arn, WEBSOCKETS_EXECUTION_LOG_GROUP_KEY))
  ELSE resources

\* Result [template, thrown] of one call.  `tpl` is
\* [defined, Resources]: Resources is read with ?. and is undefined when the
\* compiled template is; writing a key of undefined throws a TypeError.
addExecutionLogGroupsAndSubscriptions(tpl, extendedProvider, arn, stageName) ==
  IF isLogsConfig(extendedProvider) = "TypeError" THEN [template |-> tpl, thrown |-> "TypeError"]
  ELSE IF isLogsConfig(extendedProvider) = "false" THEN [template |-> tpl, thrown |-> "none"]
  ELSE IF ~tpl.defined
       THEN [template |-> tpl,
             thrown |-> IF restExecutionLoggingIsEnabled(extendedProvider)
                           \/ websocketExecutionLoggingIsEnabled(extendedProvider)
                        THEN "TypeError" ELSE "none"]
  ELSE [template |->
          [tpl EXCEPT !.Resources =
             WebsocketBlock(RestBlock(tpl.Resources, extendedProvider, arn, stageName),
                            extendedProvider, arn, stageName)],
        thrown |-> "none"]

(***************************************************************************)
(* State.                                                                  *)
(***************************************************************************)
VARIABLES
  template,          \* service.provider.compiledCloudFormationTemplate: [defined, Resources]
  logs,              \* service.provider.logs, raw
  forwarderConfigs,  \* AddExtension, IntegrationTesting, SubToAccessLogGroups, SubToExecutionLogGroups
  handlers,          \* names of the handlers found by findHandlers
  functionArn,       \* datadogForwarderArn: literal string, CloudFormation object, or undefined
  pc,                \* position of afterPackageFunction
  entries,           \* Object.entries(resources), taken once before the loop
  idx,               \* position of the for-of loop in entries
  errors,            \* the errors array of addCloudWatchForwarderSubscriptions
  thrown,            \* error propagating out of afterPackageFunction, or "none"
  cliLog,            \* lines the current hook invocation wrote with serverless.cli.log
  requests,          \* aws.request calls of the current pass, in order, with their outcome
  decisions,         \* per eligible log group of the current pass: [name, reported, allowed]
  templateAtStart,   \* the template when the current pass started
  synthCalls,        \* calls of addExecutionLogGroupsAndSubscriptions in the current pass
  rerun,             \* repeated invocations: [tracked, ended, answers]; when tracked, the log
                     \* service answers for a log group as it answered before, `ended` tells that
                     \* an invocation has ended and `answers` what was answered so far
  fnName,            \* function exercised on its own (function-level specification)
  fnArgs,            \* its arguments
  fnRet,             \* its results, one per call
  fnCalls            \* number of calls made

inputVars == <<logs, forwarderConfigs, handlers, functionArn>>
passVars == <<template, pc, entries, idx, errors, thrown, cliLog,
              requests, decisions, templateAtStart, synthCalls, rerun>>
fnVars == <<fnName, fnArgs, fnRet, fnCalls>>
vars == <<inputVars, passVars, fnVars>>

(***************************************************************************)
(* Inputs.                                                                 *)
(***************************************************************************)
ServiceName == <<"s","v","c">>
StageName == <<"d","e","v">>

FooLogGroup == <<"F","o","o">> \o LogGroupSuffix
FooLogGroupSubscription == FooLogGroup \o SubscriptionSuffix
HttpApiLogGroup == <<"H","t","t","p","A","p","i">> \o LogGroupSuffix
WebsocketsLogGroup == <<"W","e","b","s","o","c","k","e","t","s">> \o LogGroupSuffix
AppLogGroup == <<"A","p","p">> \o LogGroupSuffix
FooLambdaFunction == <<"F","o","o","L","a","m","b","d","a","F","u","n","c","t","i","o","n">>

LogGroupResource(logGroupName) ==
  [Type |-> logGroupKey, Properties |-> [LogGroupName |-> Literal(logGroupName)]]

Entry(name, resource) == [name |-> name, resource |-> resource]

\* the resources a compiled template may hold, in the order they were
\* inserted: a lambda log group, a REST access log group whose logical id is
\* the lambda log group's id followed by "Subscription", an HTTP and a
\* WebSocket access log group, a log group of no known category, and a
\* resource that is no log group
CandidateEntries ==
  << Entry(FooLogGroup, LogGroupResource(AwsLambdaPrefix \o <<"f","o","o">>)),
     Entry(FooLogGroupSubscription, LogGroupResource(AwsApiGatewayPrefix \o <<"o","l","d">>)),
     Entry(HttpApiLogGroup, LogGroupResource(AwsHttpApiPrefix \o <<"s","v","c">>)),
     Entry(WebsocketsLogGroup, LogGroupResource(AwsWebsocketPrefix \o <<"s","v","c">>)),
     Entry(AppLogGroup, LogGroupResource(<<"/","a","p","p">>)),
     Entry(FooLambdaFunction,
           [Type |-> "AWS::Lambda::Function", Properties |-> [Handler |-> "index.handler"]]) >>

Graphs ==
  { [i \in 1..Len(pick) |-> CandidateEntries[pick[i]]] :
      pick \in { p \in UNION { [1..n -> 1..Len(CandidateEntries)] : n \in 0..MaxResources } :
                   \A i, j \in 1..Len(p) : i < j => p[i] < p[j] } }

Templates ==
  { [defined |-> FALSE, Resources |-> <<>>] }
    \cup { [defined |-> TRUE, Resources |-> g] : g \in Graphs }

HandlerLists == { <<>>, << <<"b","a","r">>, <<"f","o","o">> >> }

ForwarderArns ==
  { Literal("arn:aws:lambda:us-east-1:000000000000:function:datadog-forwarder"),
    [t |-> "object", FnSub |-> "arn:aws:lambda:${AWS::Region}:${AWS::AccountId}:function:forwarder"],
    Undefined }

StackNames == { <<>>, <<"s","t","k">> }

ForwarderConfigSet ==
  [AddExtension : BOOLEAN, IntegrationTesting : BOOLEAN,
   SubToAccessLogGroups : BOOLEAN, SubToExecutionLogGroups : BOOLEAN]

\* logging configurations of the pass: well-formed ones and ones with a
\* wrong-typed field at each nesting level
PassLogsConfigs ==
  { Undefined,
    Obj([restApi |-> Bool(TRUE)]),
    Obj([restApi |-> Obj([accessLogging |-> Bool(TRUE)]),
         httpApi |-> Bool(FALSE),
         websocket |-> Obj([executionLogging |-> Bool(TRUE)])]),
    Obj([restApi |-> Obj([executionLogging |-> Bool(TRUE)]),
         httpApi |-> Bool(TRUE),
         websocket |-> Bool(TRUE)]),
    Obj([restApi |-> Bool(TRUE), httpApi |-> NumberValue]),
    Obj([websocket |-> Obj([accessLogging |-> Bool(TRUE), executionLogging |-> StringValue])]),
    Obj([restApi |-> Null, websocket |-> Bool(TRUE)]) }

\* the subscription filters the log service may report for a log group
FilterNames(expectedSubName) ==
  { expectedSubName \o <<"A","1">>,
    SubSeq(expectedSubName, 1, Len(expectedSubName) - 1),
    <<"o","t","h","e","r">> }

FilterLists(expectedSubName, maxLen) ==
  UNION { [1..n -> { [filterName |-> f] : f \in FilterNames(expectedSubName) }] : n \in 0..maxLen }

\* a failed request, or a report of up to maxLen filters
ResponsesUpTo(expectedSubName, maxLen) ==
  { [ok |-> FALSE, subscriptionFilters |-> <<>>] }
    \cup { [ok |-> TRUE, subscriptionFilters |-> fl] : fl \in FilterLists(expectedSubName, maxLen) }

\* in a pass the log service reports at most as many filters as its own
\* quota lets a log group carry
Responses(expectedSubName) ==
  ResponsesUpTo(expectedSubName, maxAllowableLogGroupSubscriptions)

(***************************************************************************)
(* Warnings.                                                               *)
(***************************************************************************)
Warning(text, logGroupName) == [text |-> text, logGroupName |-> logGroupName]

NoStackWarning ==
  Warning("No cloudformation stack available. Skipping subscribing Datadog forwarder.", <<>>)
SkipCloudFormationWarning ==
  Warning("Skipping forwarder ARN validation because forwarder string defined with CloudFormation function.", <<>>)
SkipIntegrationTestingWarning ==
  Warning("Skipping forwarder ARN validation because 'integrationTesting' is set to true", <<>>)
\* (mutation) the warning does not name the log group
TooManyWarningUnnamed(logGroupName) ==
  Warning("Could not subscribe Datadog Forwarder due to too many existing subscription filter(s).", <<>>)

TooManyWarning(logGroupName) ==
  Warning("Could not subscribe Datadog Forwarder due to too many existing subscription filter(s) for ${logGroupName}.",
          logGroupName)
ExtensionWarning ==
  Warning("Warning: Datadog Lambda Extension and forwarder are both enabled. Only APIGateway log groups will be subscribed to the forwarder.", <<>>)

(***************************************************************************)
(* afterPackageFunction: the subscription phase of one hook invocation.    *)
(***************************************************************************)
\* nothing has run yet; `tracked` fixes whether the log service repeats its answers
NoRun(tracked) == [tracked |-> tracked, ended |-> FALSE, answers |-> {}]

FnIdle ==
  /\ fnName = "none"
  /\ fnArgs = <<>>
  /\ fnRet = <<>>
  /\ fnCalls = 0

Idle(tracked) ==
  /\ template \in Templates
  /\ logs \in PassLogsConfigs
  /\ forwarderConfigs \in ForwarderConfigSet
  /\ handlers \in HandlerLists
  /\ functionArn \in ForwarderArns
  /\ pc = "idle"
  /\ entries = <<>>
  /\ idx = 1
  /\ errors = <<>>
  /\ thrown = "none"
  /\ cliLog = <<>>
  /\ requests = <<>>
  /\ decisions = <<>>
  /\ templateAtStart = template
  /\ synthCalls = 0
  /\ rerun = NoRun(tracked)
  /\ FnIdle

\* the log service answers every request freely
Init == Idle(FALSE)

\* the log service gives the same answer whenever it is asked about the same log group
InitRepeat == Idle(TRUE)

\* lines 130-137: the advisory warning pushed instead of validating
skipValidationErrors(arn, fwdConfigs) ==
  IF arn.t # "string" THEN <<SkipCloudFormationWarning>>
  ELSE IF fwdConfigs.IntegrationTesting = TRUE THEN <<SkipIntegrationTestingWarning>>
  ELSE <<>>

\* (mutation) the validation is not in the else branch
mustValidateAlways(arn, fwdConfigs) == TRUE

\* lines 131-136: whether validateForwarderArn is awaited
mustValidate(arn, fwdConfigs) ==
  arn.t = "string" /\ ~(fwdConfigs.IntegrationTesting = TRUE)

\* (mutation) a graph without entries is taken for a missing one
resourcesIsUndefinedOrEmpty(tpl) == ~tpl.defined \/ tpl.Resources = <<>>

\* line 127: resources === undefined, resources being
\* compiledCloudFormationTemplate?.Resources
resourcesIsUndefined(tpl) == ~tpl.defined

\* A hook bound to afterPackageFunction fires (any number of them may, one
\* after the other); with a forwarder configured it enters
\* addCloudWatchForwarderSubscriptions and runs to its first await or return.
StartPass ==
  /\ pc \in {"idle", "done"}
  /\ requests' = <<>>
  /\ cliLog' = <<>>
  /\ decisions' = <<>>
  /\ templateAtStart' = template
  /\ synthCalls' = 0
  /\ rerun' = [rerun EXCEPT !.ended = @ \/ (rerun.tracked /\ pc = "done")]
  /\ idx' = 1
  /\ IF functionArn.t = "undefined"
     THEN /\ pc' = "done"
          /\ errors' = <<>>
          /\ entries' = <<>>
     ELSE IF resourcesIsUndefined(template)
     THEN /\ pc' = "returned"
          /\ errors' = <<NoStackWarning>>
          /\ entries' = <<>>
     ELSE /\ errors' = skipValidationErrors(functionArn, forwarderConfigs)
          /\ entries' = template.Resources
          /\ pc' = IF mustValidate(functionArn, forwarderConfigs) THEN "getFunction" ELSE "loop"
  /\ UNCHANGED <<template, thrown, inputVars, fnVars>>

\* The function service answers the getFunction request.
GetFunctionResponse ==
  /\ pc = "getFunction"
  /\ \E ok \in BOOLEAN :
       /\ requests' = Append(requests, [service |-> "Lambda", target |-> <<>>, ok |-> ok])
       /\ thrown' = validateForwarderArn(ok)
       /\ pc' = IF validateForwarderArn(ok) = "none" THEN "loop" ELSE "thrown"
  /\ UNCHANGED <<template, entries, idx, errors, cliLog, decisions,
                 templateAtStart, synthCalls, rerun, inputVars, fnVars>>

CurrentEntry == entries[idx]
ScopedSubName == CurrentEntry.name \o SubscriptionSuffix
\* aws.naming.getStackName() is read from the provider in every iteration
ExpectedSubName(stackName) == expectedSubNameOf(ServiceName, StageName, stackName, ScopedSubName)

\* One iteration of the loop up to `continue` or to the awaited log-service request.
EngineStep ==
  /\ pc = "loop"
  /\ idx <= Len(entries)
  /\ IF shouldSubscribe(CurrentEntry.name, CurrentEntry.resource, forwarderConfigs, handlers, logs)
     THEN pc' = "describe" /\ idx' = idx
     ELSE pc' = "loop" /\ idx' = idx + 1
  /\ UNCHANGED <<template, entries, errors, thrown, cliLog, requests, decisions,
                 templateAtStart, synthCalls, rerun, inputVars, fnVars>>

\* (mutation) a key that is taken is not assigned again: the subscription
\* goes under the key followed by "Subscription" once more
applySubscriptionUnderFreeKey(resources, name, arn) ==
  IF HasKey(resources, name \o SubscriptionSuffix)
  THEN SetEntry(resources, name \o SubscriptionSuffix \o SubscriptionSuffix,
                subscribeToLogGroup(arn, name))
  ELSE SetEntry(resources, name \o SubscriptionSuffix, subscribeToLogGroup(arn, name))

\* resources after `resources[scopedSubName] = subscription`
applySubscription(resources, name, arn) ==
  SetEntry(resources, name \o SubscriptionSuffix, subscribeToLogGroup(arn, name))

\* (mutation) the warning is put in front of the earlier ones
pushErrorInFront(errs, warning) == <<warning>> \o errs

\* lines 154-156: errors.push(...)
pushError(errs, warning) == Append(errs, warning)

\* The log service answers (or fails) describeSubscriptionFilters; the rest of
\* the iteration runs.
DescribeResponse ==
  /\ pc = "describe"
  /\ \E stackName \in StackNames : \E response \in Responses(ExpectedSubName(stackName)) :
       LET logGroupName == CurrentEntry.resource.Properties.LogGroupName.s
           canSub == canSubscribeLogGroup(response, ExpectedSubName(stackName))
           decision == [name |-> CurrentEntry.name,
                        reported |-> IF ~response.ok THEN "failed"
                                     ELSE IF response.subscriptionFilters = <<>> THEN "empty"
                                     ELSE "some",
                        allowed |-> canSub]
       IN  /\ rerun.tracked =>
                \A a \in rerun.answers : a.name = CurrentEntry.name => a = decision
           /\ rerun' = IF rerun.tracked
                       THEN [rerun EXCEPT !.answers = @ \cup {decision}]
                       ELSE rerun
           /\ requests' = Append(requests, [service |-> "CloudWatchLogs",
                                            target |-> logGroupName, ok |-> response.ok])
           /\ decisions' = Append(decisions, decision)
           /\ IF ~canSub
              THEN /\ errors' = pushError(errors, TooManyWarning(logGroupName))
                   /\ template' = template
              ELSE /\ errors' = errors
                   /\ template' = [template EXCEPT !.Resources =
                                     applySubscription(template.Resources, CurrentEntry.name, functionArn)]
  /\ idx' = idx + 1
  /\ pc' = "loop"
  /\ UNCHANGED <<entries, thrown, cliLog, templateAtStart, synthCalls, inputVars, fnVars>>

\* The loop is over: addCloudWatchForwarderSubscriptions returns errors.
EngineReturn ==
  /\ pc = "loop"
  /\ idx > Len(entries)
  /\ pc' = "returned"
  /\ UNCHANGED <<template, entries, idx, errors, thrown, cliLog, requests, decisions,
                 templateAtStart, synthCalls, rerun, inputVars, fnVars>>

\* index.ts lines 183-185: the synthesizer runs when subscribeToExecutionLogs is set.
Synthesize ==
  /\ pc = "returned"
  /\ forwarderConfigs.SubToExecutionLogGroups
  /\ LET r == addExecutionLogGroupsAndSubscriptions(template, logs, functionArn, StageName)
     IN  /\ template' = r.template
         /\ thrown' = r.thrown
         /\ pc' = IF r.thrown = "none" THEN "log" ELSE "thrown"
  /\ synthCalls' = synthCalls + 1
  /\ UNCHANGED <<entries, idx, errors, cliLog, requests, decisions,
                 templateAtStart, rerun, inputVars, fnVars>>

\* index.ts lines 186-195: the warnings are logged, then the extension notice.
LogErrors ==
  /\ \/ pc = "log"
     \/ pc = "returned" /\ ~forwarderConfigs.SubToExecutionLogGroups
  /\ cliLog' = cliLog \o errors
                 \o (IF forwarderConfigs.AddExtension THEN <<ExtensionWarning>> ELSE <<>>)
  /\ pc' = "done"
  /\ UNCHANGED <<template, entries, idx, errors, thrown, requests, decisions,
                 templateAtStart, synthCalls, rerun, inputVars, fnVars>>

Next ==
  \/ StartPass
  \/ GetFunctionResponse
  \/ EngineStep
  \/ DescribeResponse
  \/ EngineReturn
  \/ Synthesize
  \/ LogErrors

Spec == Init /\ [][Next]_vars

\* the hooks fire one after the other while the log service repeats its answers
SpecRepeat == InitRepeat /\ [][Next]_vars

(***************************************************************************)
(* Function-level specification: each exported or pure function applied to *)
(* inputs drawn from bounded sets.                                         *)
(***************************************************************************)
BooleanValues == { Bool(TRUE), Bool(FALSE) }

\* a category value: false, true, or an object with any combination of
\* accessLogging / executionLogging absent, false or true
SubLogsConfigs ==
  BooleanValues
    \cup { Obj(f) : f \in UNION { [D -> BooleanValues] :
                                   D \in SUBSET {"accessLogging", "executionLogging"} } }

\* a well-typed logging configuration: undefined, or an object with each
\* category absent or holding a category value
LogsConfigs ==
  { Undefined }
    \cup { Obj(f) : f \in UNION { [D -> SubLogsConfigs] :
                                   D \in SUBSET {"restApi", "httpApi", "websocket"} } }

MyFunctionTest ==
  <<"m","y","-","f","u","n","c","t","i","o","n","_","t","e","s","t">>

FunctionNameAlphabet == {"a", "-", "_", "B"}

FunctionNames ==
  { MyFunctionTest }
    \cup UNION { [1..n -> FunctionNameAlphabet] : n \in 0..MaxNameLen }

CanSubscribeArgs ==
  { [expectedSubName |-> e, response |-> r] :
      e \in { expectedSubNameOf(ServiceName, StageName, sn, FooLogGroupSubscription) :
                sn \in StackNames },
      r \in ResponsesUpTo(expectedSubNameOf(ServiceName, StageName, <<>>, FooLogGroupSubscription),
                           MaxFilters)
              \cup ResponsesUpTo(expectedSubNameOf(ServiceName, StageName, <<"s","t","k">>,
                                                  FooLogGroupSubscription),
                                MaxFilters) }

SynthesizerArgs ==
  [template : Templates, logs : PassLogsConfigs, functionArn : ForwarderArns \ {Undefined}]

PassIdle ==
  /\ template = [defined |-> FALSE, Resources |-> <<>>]
  /\ logs = Undefined
  /\ forwarderConfigs = [AddExtension |-> FALSE, IntegrationTesting |-> FALSE,
                         SubToAccessLogGroups |-> FALSE, SubToExecutionLogGroups |-> FALSE]
  /\ handlers = <<>>
  /\ functionArn = Undefined
  /\ pc = "function"
  /\ entries = <<>>
  /\ idx = 1
  /\ errors = <<>>
  /\ thrown = "none"
  /\ cliLog = <<>>
  /\ requests = <<>>
  /\ decisions = <<>>
  /\ templateAtStart = template
  /\ synthCalls = 0
  /\ rerun = NoRun(FALSE)

InitFn ==
  /\ PassIdle
  /\ \/ fnName = "loggingIsEnabled" /\ fnArgs \in LogsConfigs
     \/ fnName = "getLogGroupLogicalId" /\ fnArgs \in FunctionNames
     \/ fnName = "canSubscribeLogGroup" /\ fnArgs \in CanSubscribeArgs
     \/ fnName = "addExecutionLogGroupsAndSubscriptions" /\ fnArgs \in SynthesizerArgs
  /\ fnRet = <<>>
  /\ fnCalls = 0

\* the five flags of the config interpreter
CallLoggingIsEnabled ==
  /\ fnName = "loggingIsEnabled"
  /\ fnCalls = 0
  /\ fnRet' = << [restAccess |-> restAccessLoggingIsEnabled(fnArgs),
                  restExecution |-> restExecutionLoggingIsEnabled(fnArgs),
                  httpAccess |-> httpAccessLoggingIsEnabled(fnArgs),
                  websocketAccess |-> websocketAccessLoggingIsEnabled(fnArgs),
                  websocketExecution |-> websocketExecutionLoggingIsEnabled(fnArgs)] >>
  /\ fnCalls' = 1
  /\ UNCHANGED <<fnName, fnArgs, inputVars, passVars>>

CallGetLogGroupLogicalId ==
  /\ fnName = "getLogGroupLogicalId"
  /\ fnCalls = 0
  /\ fnRet' = << getLogGroupLogicalId(fnArgs) >>
  /\ fnCalls' = 1
  /\ UNCHANGED <<fnName, fnArgs, inputVars, passVars>>

CallCanSubscribeLogGroup ==
  /\ fnName = "canSubscribeLogGroup"
  /\ fnCalls = 0
  /\ fnRet' = << canSubscribeLogGroup(fnArgs.response, fnArgs.expectedSubName) >>
  /\ fnCalls' = 1
  /\ UNCHANGED <<fnName, fnArgs, inputVars, passVars>>

\* addExecutionLogGroupsAndSubscriptions invoked again on the service it
\* has just mutated, with the same configuration, stage and destination
CallAddExecutionLogGroupsAndSubscriptions ==
  /\ fnName = "addExecutionLogGroupsAndSubscriptions"
  /\ fnCalls < MaxCalls
  /\ LET current == IF fnCalls = 0 THEN fnArgs.template ELSE fnRet[fnCalls].template
     IN  fnRet' = Append(fnRet,
                         addExecutionLogGroupsAndSubscriptions(
                           current, fnArgs.logs, fnArgs.functionArn, StageName))
  /\ fnCalls' = fnCalls + 1
  /\ UNCHANGED <<fnName, fnArgs, inputVars, passVars>>

NextFn ==
  \/ CallLoggingIsEnabled
  \/ CallGetLogGroupLogicalId
  \/ CallCanSubscribeLogGroup
  \/ CallAddExecutionLogGroupsAndSubscriptions

SpecFn == InitFn /\ [][NextFn]_vars

(***************************************************************************)
(* Properties of the functions (checked under SpecFn).                     *)
(***************************************************************************)

\* C1: for every list of subscription filters the log service reports,
\* canSubscribeLogGroup allows when some filter name starts with the expected
\* prefix, otherwise rejects when the list has 2 or more filters, otherwise
\* allows.
C1_QuotaRule ==
  (fnName = "canSubscribeLogGroup" /\ fnCalls = 1 /\ fnArgs.response.ok) =>
    LET filters == fnArgs.response.subscriptionFilters
        prefix == fnArgs.expectedSubName
        ours == \E i \in 1..Len(filters) :
                  /\ Len(filters[i].filterName) >= Len(prefix)
                  /\ \A k \in 1..Len(prefix) : filters[i].filterName[k] = prefix[k]
    IN  fnRet[1] = (IF ours THEN TRUE ELSE IF Len(filters) >= 2 THEN FALSE ELSE TRUE)

\* two filters, none with the expected prefix: rejected
C1_Witness ==
  /\ fnName = "canSubscribeLogGroup"
  /\ fnCalls = 1
  /\ fnArgs.response.ok
  /\ Len(fnArgs.response.subscriptionFilters) = 2
  /\ \A i \in 1..2 :
       ~StartsWith(fnArgs.response.subscriptionFilters[i].filterName, fnArgs.expectedSubName)
  /\ fnRet[1] = FALSE

\* what the claim C6 expects of a flag: the category value is true, or it is
\* an object whose sub-flag of that name is true
FlagExpected(config, category, subFlag) ==
  /\ config.t = "object"
  /\ category \in DOMAIN config.f
  /\ LET value == config.f[category]
     IN  \/ value.t = "boolean" /\ value.v = TRUE
         \/ /\ value.t = "object"
            /\ subFlag \in DOMAIN value.f
            /\ value.f[subFlag].t = "boolean"
            /\ value.f[subFlag].v = TRUE

\* C6: each of the five flags is enabled exactly when its category value is
\* true or is an object whose sub-flag of the same name is true; so false
\* disables both flags of the category and the other sub-flag has no effect.
C6_FlagResolution ==
  (fnName = "loggingIsEnabled" /\ fnCalls = 1) =>
    /\ fnRet[1].restAccess = FlagExpected(fnArgs, "restApi", "accessLogging")
    /\ fnRet[1].restExecution = FlagExpected(fnArgs, "restApi", "executionLogging")
    /\ fnRet[1].httpAccess = FlagExpected(fnArgs, "httpApi", "accessLogging")
    /\ fnRet[1].websocketAccess = FlagExpected(fnArgs, "websocket", "accessLogging")
    /\ fnRet[1].websocketExecution = FlagExpected(fnArgs, "websocket", "executionLogging")

\* restApi is an object with executionLogging true and accessLogging false:
\* only the execution flag is on
C6_Witness ==
  /\ fnName = "loggingIsEnabled"
  /\ fnCalls = 1
  /\ fnArgs.t = "object"
  /\ "restApi" \in DOMAIN fnArgs.f
  /\ fnArgs.f["restApi"].t = "object"
  /\ DOMAIN fnArgs.f["restApi"].f = {"accessLogging", "executionLogging"}
  /\ fnArgs.f["restApi"].f["executionLogging"].v = TRUE
  /\ fnArgs.f["restApi"].f["accessLogging"].v = FALSE
  /\ fnRet[1].restExecution
  /\ ~fnRet[1].restAccess

MyDashFunctionUnderscoretestLogGroup ==
  <<"M","y","D","a","s","h","F","u","n","c","t","i","o","n",
    "U","n","d","e","r","s","c","o","r","e","t","e","s","t",
    "L","o","g","G","r","o","u","p">>

MyDashfunctionUnderscoretestLogGroup ==
  <<"M","y","D","a","s","h","f","u","n","c","t","i","o","n",
    "U","n","d","e","r","s","c","o","r","e","t","e","s","t",
    "L","o","g","G","r","o","u","p">>

\* C7 as stated: "my-function_test" maps to "MyDashFunctionUnderscoretestLogGroup"
\* and the empty name maps to the empty string.
C7_AsStated ==
  (fnName = "getLogGroupLogicalId" /\ fnCalls = 1) =>
    /\ fnArgs = MyFunctionTest => fnRet[1] = MyDashFunctionUnderscoretestLogGroup
    /\ fnArgs = <<>> => fnRet[1] = <<>>

\* C7 (amended): "my-function_test" maps to "MyDashfunctionUnderscoretestLogGroup"
\* (only the first character of the name is uppercased; the character after a
\* replaced "-" keeps its case), and the empty name maps to the empty string
\* with no LogGroup suffix.
C7_NamingTransform ==
  (fnName = "getLogGroupLogicalId" /\ fnCalls = 1) =>
    /\ fnArgs = MyFunctionTest => fnRet[1] = MyDashfunctionUnderscoretestLogGroup
    /\ fnArgs = <<>> => fnRet[1] = <<>>

C7_Witness ==
  /\ fnName = "getLogGroupLogicalId"
  /\ fnCalls = 1
  /\ fnArgs = MyFunctionTest
  /\ Len(fnRet[1]) = Len(MyFunctionTest) + 3 + 9 + 8

\* C8: a second call of addExecutionLogGroupsAndSubscriptions with the same
\* configuration, stage and destination leaves the graph as the first call
\* left it.
C8_SynthesizerIdempotent ==
  (fnName = "addExecutionLogGroupsAndSubscriptions" /\ fnCalls >= 2) =>
    fnRet[2].template = fnRet[1].template

\* both pairs were inserted into a non-empty graph, and the call was repeated
C8_Witness ==
  /\ fnName = "addExecutionLogGroupsAndSubscriptions"
  /\ fnCalls = 2
  /\ fnArgs.template.defined
  /\ Len(fnArgs.template.Resources) > 0
  /\ fnRet[1].thrown = "none"
  /\ { REST_EXECUTION_LOG_GROUP_KEY, REST_EXECUTION_SUBSCRIPTION_KEY,
       WEBSOCKETS_EXECUTION_LOG_GROUP_KEY, WEBSOCKETS_EXECUTION_SUBCRIPTION_KEY }
       \subseteq KeysOf(fnRet[2].template.Resources)
  /\ Len(fnRet[2].template.Resources) = Len(fnArgs.template.Resources) + 4

(***************************************************************************)
(* Properties of the subscription phase (checked under Spec).              *)
(***************************************************************************)
LambdaRequests == { i \in 1..Len(requests) : requests[i].service = "Lambda" }
LogsRequests == { i \in 1..Len(requests) : requests[i].service = "CloudWatchLogs" }

\* C2: when the existence query fails (the destination is a literal string
\* and integration testing is off, or no query is made), ForwarderNotFound
\* reaches the caller before any candidate is processed: no log-service
\* query was issued, the graph is unchanged, and the synthesizer is not run
\* in that pass.
C2_ForwarderNotFoundIsRaisedFirst ==
  (\E i \in LambdaRequests : ~requests[i].ok) =>
    /\ functionArn.t = "string"
    /\ forwarderConfigs.IntegrationTesting = FALSE
    /\ thrown = "DatadogForwarderNotFoundError"
    /\ pc = "thrown"
    /\ LogsRequests = {}
    /\ decisions = <<>>
    /\ template = templateAtStart
    /\ synthCalls = 0

\* the query failed in a pass over a non-empty graph with execution-log
\* subscription requested
C2_Witness ==
  /\ thrown = "DatadogForwarderNotFoundError"
  /\ requests = << [service |-> "Lambda", target |-> <<>>, ok |-> FALSE] >>
  /\ template.defined
  /\ Len(template.Resources) = MaxResources
  /\ forwarderConfigs.SubToExecutionLogGroups

\* addCloudWatchForwarderSubscriptions went past the validation of a pass
\* over a present resource graph
PastValidation ==
  /\ functionArn.t # "undefined"
  /\ templateAtStart.defined
  /\ pc \in {"loop", "describe", "returned", "log", "done", "thrown"}

SkipWarnings ==
  { i \in 1..Len(errors) :
      errors[i] \in {SkipCloudFormationWarning, SkipIntegrationTestingWarning} }

\* C3: in one pass over a present graph the function service is queried zero
\* times and exactly one skip warning is recorded when the destination is an
\* intrinsic expression or integration testing is active (one text per
\* reason); otherwise it is queried exactly once and no skip warning is recorded.
C3_ValidationOnceOrSkipped ==
  PastValidation =>
    IF functionArn.t # "string" \/ forwarderConfigs.IntegrationTesting
    THEN /\ LambdaRequests = {}
         /\ Cardinality(SkipWarnings) = 1
         /\ errors[1] = IF functionArn.t # "string"
                        THEN SkipCloudFormationWarning
                        ELSE SkipIntegrationTestingWarning
         /\ SkipCloudFormationWarning # SkipIntegrationTestingWarning
    ELSE /\ Cardinality(LambdaRequests) = 1
         /\ SkipWarnings = {}

\* a pass with a literal destination and integration testing on has ended
C3_Witness ==
  /\ pc = "done"
  /\ functionArn.t = "string"
  /\ forwarderConfigs.IntegrationTesting
  /\ templateAtStart.defined
  /\ Len(entries) > 0
  /\ errors[1] = SkipIntegrationTestingWarning
  /\ requests # <<>>

\* C4: with extension mode active and subscribe-to-access-logs disabled the
\* decision engine finds no resource eligible, issues no log-service query
\* and leaves the graph as it was when the pass started (the synthesizer,
\* which runs after it, is the only writer).
C4_ExtensionWithoutAccessLogs ==
  (forwarderConfigs.AddExtension /\ ~forwarderConfigs.SubToAccessLogGroups) =>
    /\ pc # "describe"
    /\ decisions = <<>>
    /\ LogsRequests = {}
    /\ synthCalls = 0 => template = templateAtStart

\* the engine returned from a graph holding a tracked lambda log group and a
\* REST access log group whose access-logging flag is on
C4_Witness ==
  /\ forwarderConfigs.AddExtension
  /\ ~forwarderConfigs.SubToAccessLogGroups
  /\ pc = "returned"
  /\ restAccessLoggingIsEnabled(logs)
  /\ handlers # <<>>
  /\ Len(entries) = 2
  /\ entries[1].name = FooLogGroup
  /\ entries[2].name = FooLogGroupSubscription

ExpectedSubscription(name) ==
  [Type |-> "AWS::Logs::SubscriptionFilter",
   Properties |-> [DestinationArn |-> functionArn,
                   FilterPattern |-> <<>>,
                   LogGroupName |-> [t |-> "object", Ref |-> name]]]

FooLambdaLogGroupName == <<"/","a","w","s","/","l","a","m","b","d","a","/","f","o","o">>

FooScenario ==
  /\ pc = "returned"
  /\ templateAtStart.defined
  /\ templateAtStart.Resources =
       << [name |-> FooLogGroup,
           resource |-> [Type |-> "AWS::Logs::LogGroup",
                         Properties |-> [LogGroupName |-> [t |-> "string", s |-> FooLambdaLogGroupName]]]] >>
  /\ \E i \in 1..Len(handlers) : handlers[i] = <<"f","o","o">>
  /\ ~forwarderConfigs.AddExtension

\* C5: every eligible log group X the quota check allowed has the entry
\* '<X>Subscription': a SubscriptionFilter with the destination passed in, an
\* empty filter pattern and the log group given as {Ref: X}; in the scenario
\* (graph {FooLogGroup: '/aws/lambda/foo'}, handler foo, extension inactive,
\* no existing subscription) the graph gains exactly FooLogGroupSubscription
\* and no warning is returned besides the advisory of a skipped validation.
C5_AllowedLogGroupIsSubscribed ==
  /\ \A i \in 1..Len(decisions) :
       decisions[i].allowed =>
         /\ HasKey(template.Resources, decisions[i].name \o SubscriptionSuffix)
         /\ Lookup(template.Resources, decisions[i].name \o SubscriptionSuffix)
              = ExpectedSubscription(decisions[i].name)
  /\ FooScenario =>
       /\ Len(decisions) = 1
       /\ decisions[1].name = FooLogGroup
       /\ decisions[1].reported = "empty" =>
            /\ template.Resources =
                 Append(templateAtStart.Resources,
                        [name |-> FooLogGroupSubscription,
                         resource |-> ExpectedSubscription(FooLogGroup)])
            /\ errors = skipValidationErrors(functionArn, forwarderConfigs)
            /\ (functionArn.t = "string" /\ ~forwarderConfigs.IntegrationTesting) => errors = <<>>

\* the scenario ran with a validated literal destination and an empty report
C5_Witness ==
  /\ FooScenario
  /\ functionArn.t = "string"
  /\ ~forwarderConfigs.IntegrationTesting
  /\ decisions = << [name |-> FooLogGroup, reported |-> "empty", allowed |-> TRUE] >>
  /\ errors = <<>>

\* C9: over the whole subscription phase the only error raised is
\* ForwarderNotFound; a missing resource graph ends with the phase
\* completing normally and the condition reported as a warning.
C9_OnlyForwarderNotFound ==
  /\ thrown \in {"none", "DatadogForwarderNotFoundError"}
  /\ (pc # "idle" /\ functionArn.t # "undefined" /\ ~templateAtStart.defined) =>
       /\ pc # "thrown"
       /\ errors = <<NoStackWarning>>

\* a logging configuration with a wrong-typed field at some nesting level
Malformed(config) == config \notin LogsConfigs

IsApiLogGroupEntry(e) ==
  /\ e.resource.Type = "AWS::Logs::LogGroup"
  /\ e.resource.Properties.LogGroupName.t = "string"
  /\ ~StartsWith(e.resource.Properties.LogGroupName.s, AwsLambdaPrefix)

\* C10: a configuration with a wrong-typed field is rejected before any flag
\* is resolved from it: the engine finds no API-category log group eligible
\* (their eligibility rests on an access-logging flag) and the synthesizer
\* adds no execution log group.
C10_MalformedConfigurationAddsNothing ==
  Malformed(logs) =>
    /\ \A i \in 1..Len(decisions) :
         \A j \in 1..Len(entries) :
           entries[j].name = decisions[i].name => ~IsApiLogGroupEntry(entries[j])
    /\ pc = "describe" => ~IsApiLogGroupEntry(CurrentEntry)
    /\ ~HasKey(template.Resources, REST_EXECUTION_LOG_GROUP_KEY)
    /\ ~HasKey(template.Resources, WEBSOCKETS_EXECUTION_LOG_GROUP_KEY)

\* addCloudWatchForwarderSubscriptions was called in the current pass
EngineCalled == pc # "idle" /\ functionArn.t # "undefined"

\* C11 as stated: an absent graph and a graph with no entries both end in the
\* single warning, with no call to the function service.
C11_AsStated ==
  (EngineCalled /\ (~templateAtStart.defined \/ templateAtStart.Resources = <<>>)) =>
    /\ errors = <<NoStackWarning>>
    /\ requests = <<>>

\* C11: when the resource graph is absent, addCloudWatchForwarderSubscriptions
\* returns exactly the one warning, calls neither the function service nor
\* the log service and mutates nothing; a graph that is present but has no
\* entries is not that case: the destination is validated (or the skip
\* warning recorded) as for any graph, the "no stack" warning is not returned,
\* no log-service call is made and the engine adds nothing.
C11_NoStackWarningOnlyWhenAbsent ==
  /\ (EngineCalled /\ ~templateAtStart.defined) =>
       /\ errors = <<NoStackWarning>>
       /\ requests = <<>>
       /\ decisions = <<>>
       /\ entries = <<>>
       /\ template = templateAtStart
  /\ (EngineCalled /\ templateAtStart.defined /\ templateAtStart.Resources = <<>>) =>
       /\ errors = skipValidationErrors(functionArn, forwarderConfigs)
       /\ \A i \in 1..Len(errors) : errors[i] # NoStackWarning
       /\ LogsRequests = {}
       /\ decisions = <<>>
       /\ synthCalls = 0 => template = templateAtStart
       /\ (mustValidate(functionArn, forwarderConfigs) /\ pc # "getFunction")
            => Cardinality(LambdaRequests) = 1

\* a pass over an absent graph ended, with a destination that would have been
\* validated, and its one warning was logged
C11_Witness ==
  /\ pc = "done"
  /\ ~templateAtStart.defined
  /\ mustValidate(functionArn, forwarderConfigs)
  /\ errors = <<NoStackWarning>>
  /\ cliLog # <<>>
  /\ cliLog[1] = NoStackWarning
  /\ requests = <<>>

\* the entry is a log group whose name is a literal string
IsLiteralLogGroup(e) ==
  /\ e.resource.Type = "AWS::Logs::LogGroup"
  /\ e.resource.Properties.LogGroupName.t = "string"

LiteralName(e) == e.resource.Properties.LogGroupName.s

\* a lambda-level log group whose logical id is the naming transform of a handler
IsTrackedLambdaLogGroup(e) ==
  /\ StartsWith(LiteralName(e), AwsLambdaPrefix)
  /\ \E h \in 1..Len(handlers) : getLogGroupLogicalId(handlers[h]) = e.name

\* an API-category log group whose category has access logging enabled in the
\* logging configuration as it was supplied
IsEnabledApiLogGroup(e) ==
  \/ StartsWith(LiteralName(e), AwsApiGatewayPrefix) /\ FlagExpected(logs, "restApi", "accessLogging")
  \/ StartsWith(LiteralName(e), AwsHttpApiPrefix) /\ FlagExpected(logs, "httpApi", "accessLogging")
  \/ StartsWith(LiteralName(e), AwsWebsocketPrefix) /\ FlagExpected(logs, "websocket", "accessLogging")

\* the engine decided on entry j in the current pass, and found it eligible
Decided(j) == j < idx \/ (j = idx /\ pc = "describe")
FoundEligible(j) ==
  \/ j = idx /\ pc = "describe"
  \/ \E d \in 1..Len(decisions) : decisions[d].name = entries[j].name

\* C12 as stated: with extension mode inactive the two alternatives are the
\* whole decision.
C12_AsStated ==
  ~forwarderConfigs.AddExtension =>
    \A j \in 1..Len(entries) :
      (Decided(j) /\ IsLiteralLogGroup(entries[j])) =>
        (FoundEligible(j) <=>
           (IsTrackedLambdaLogGroup(entries[j]) \/ IsEnabledApiLogGroup(entries[j])))

\* C12: with extension mode inactive, a log group with a literal name is
\* eligible exactly when it is a lambda-level log group whose logical id is the
\* naming transform of some handler, or it is an API-category log group whose
\* prefix matches a category with access logging enabled AND the
\* subscribe-to-access-logs flag of the forwarder configuration is set.
C12_EligibilityWithoutExtension ==
  ~forwarderConfigs.AddExtension =>
    \A j \in 1..Len(entries) :
      (Decided(j) /\ IsLiteralLogGroup(entries[j])) =>
        (FoundEligible(j) <=>
           \/ IsTrackedLambdaLogGroup(entries[j])
           \/ forwarderConfigs.SubToAccessLogGroups /\ IsEnabledApiLogGroup(entries[j]))

\* the engine returned from a graph of a tracked lambda log group, found
\* eligible, and a WebSocket access log group with its flag enabled, found
\* ineligible because access logs are not to be subscribed
C12_Witness ==
  /\ ~forwarderConfigs.AddExtension
  /\ ~forwarderConfigs.SubToAccessLogGroups
  /\ pc = "returned"
  /\ Len(entries) = 2
  /\ entries[1].name = FooLogGroup
  /\ entries[2].name = WebsocketsLogGroup
  /\ IsEnabledApiLogGroup(entries[2])
  /\ Len(decisions) = 1
  /\ decisions[1].name = FooLogGroup

\* the literal log group name of the entry the decision d was taken for
DecidedLogGroupName(d) ==
  LiteralName(entries[CHOOSE j \in 1..Len(entries) : entries[j].name = decisions[d].name])

WarningsNaming(logGroupName) ==
  { k \in 1..Len(errors) : errors[k].logGroupName = logGroupName }

\* the engine has returned from its loop over a present graph
EngineReturned ==
  /\ EngineCalled
  /\ templateAtStart.defined
  /\ pc \in {"returned", "log", "done"}

\* C13: a log group the quota check rejected has exactly one warning naming
\* it and its '<X>Subscription' key is as it was before the pass (absent, if
\* it was absent); the engine goes on: when it returns, every eligible entry
\* of the graph has been decided, one warning per rejection was recorded, and
\* an allowed log group decided after a rejected one has its SubscriptionFilter.
C13_RejectionSkipsOnlyThatLogGroup ==
  /\ \A d \in 1..Len(decisions) :
       ~decisions[d].allowed =>
         /\ Cardinality(WarningsNaming(DecidedLogGroupName(d))) = 1
         /\ LET key == decisions[d].name \o SubscriptionSuffix
            IN  /\ HasKey(template.Resources, key) <=> HasKey(templateAtStart.Resources, key)
                /\ HasKey(template.Resources, key) =>
                     Lookup(template.Resources, key) = Lookup(templateAtStart.Resources, key)
         /\ \A k \in (d + 1)..Len(decisions) :
              decisions[k].allowed =>
                /\ HasKey(template.Resources, decisions[k].name \o SubscriptionSuffix)
                /\ Lookup(template.Resources, decisions[k].name \o SubscriptionSuffix)
                     = ExpectedSubscription(decisions[k].name)
  /\ Cardinality({ k \in 1..Len(errors) : errors[k].logGroupName # <<>> })
       = Cardinality({ d \in 1..Len(decisions) : ~decisions[d].allowed })
  /\ EngineReturned =>
       \A j \in 1..Len(entries) :
         shouldSubscribe(entries[j].name, entries[j].resource, forwarderConfigs, handlers, logs)
           => \E d \in 1..Len(decisions) : decisions[d].name = entries[j].name

\* the lambda log group was rejected and the HTTP access log group after it
\* was allowed and subscribed
C13_Witness ==
  /\ pc = "returned"
  /\ Len(decisions) = 2
  /\ decisions[1] = [name |-> FooLogGroup, reported |-> "some", allowed |-> FALSE]
  /\ decisions[2].name = HttpApiLogGroup
  /\ decisions[2].allowed
  /\ WarningsNaming(FooLambdaLogGroupName) # {}
  /\ ~HasKey(template.Resources, FooLogGroupSubscription)
  /\ HasKey(template.Resources, HttpApiLogGroup \o SubscriptionSuffix)

\* the log-service requests of the current pass made for a log group name
LogsRequestsFor(logGroupName) ==
  { i \in LogsRequests : requests[i].target = logGroupName }

\* C14: a log group whose log-service query failed is allowed as if the
\* service had reported no subscription: its SubscriptionFilter is in the
\* graph, no warning names it, the engine did not raise (an error, if any,
\* comes from the synthesizer that runs after it), and the one failed request
\* is the only request made for that log group.
C14_FailedQueryCountsAsEmpty ==
  \A d \in 1..Len(decisions) :
    decisions[d].reported = "failed" =>
      /\ decisions[d].allowed
      /\ HasKey(template.Resources, decisions[d].name \o SubscriptionSuffix)
      /\ Lookup(template.Resources, decisions[d].name \o SubscriptionSuffix)
           = ExpectedSubscription(decisions[d].name)
      /\ WarningsNaming(DecidedLogGroupName(d)) = {}
      /\ thrown # "none" => synthCalls = 1
      /\ Cardinality(LogsRequestsFor(DecidedLogGroupName(d))) = 1
      /\ \A i \in LogsRequestsFor(DecidedLogGroupName(d)) : ~requests[i].ok

\* a pass ended in which the only query, for the lambda log group, failed
C14_Witness ==
  /\ pc = "done"
  /\ thrown = "none"
  /\ decisions = << [name |-> FooLogGroup, reported |-> "failed", allowed |-> TRUE] >>
  /\ HasKey(template.Resources, FooLogGroupSubscription)
  /\ ~HasKey(templateAtStart.Resources, FooLogGroupSubscription)
  /\ LogsRequests # {}
  /\ \A i \in LogsRequests : ~requests[i].ok
  /\ \A k \in 1..Len(errors) : errors[k].logGroupName = <<>>

IsLambdaLogGroup(e) ==
  IsLiteralLogGroup(e) /\ StartsWith(LiteralName(e), AwsLambdaPrefix)

\* C15: with extension mode active, every log group the engine finds eligible
\* is an API-category log group whose category has access logging enabled,
\* never a lambda-level one; so for a lambda-level log group X, tracked or
\* not, the key '<X>Subscription' is as it was before the pass.
C15_ExtensionOwnsLambdaLogGroups ==
  forwarderConfigs.AddExtension =>
    /\ \A j \in 1..Len(entries) :
         (Decided(j) /\ FoundEligible(j)) =>
           /\ ~IsLambdaLogGroup(entries[j])
           /\ IsLiteralLogGroup(entries[j])
           /\ IsEnabledApiLogGroup(entries[j])
    /\ \A j \in 1..Len(entries) :
         IsLambdaLogGroup(entries[j]) =>
           LET key == entries[j].name \o SubscriptionSuffix
           IN  /\ HasKey(template.Resources, key) <=> HasKey(templateAtStart.Resources, key)
               /\ HasKey(template.Resources, key) =>
                    Lookup(template.Resources, key) = Lookup(templateAtStart.Resources, key)

\* a pass in extension mode ended over a tracked lambda log group, left
\* alone, and an HTTP access log group, subscribed; the notice was logged
C15_Witness ==
  /\ forwarderConfigs.AddExtension
  /\ pc = "done"
  /\ Len(entries) = 2
  /\ entries[1].name = FooLogGroup
  /\ IsTrackedLambdaLogGroup(entries[1])
  /\ entries[2].name = HttpApiLogGroup
  /\ Len(decisions) = 1
  /\ decisions[1].name = HttpApiLogGroup
  /\ decisions[1].allowed
  /\ ~HasKey(template.Resources, FooLogGroupSubscription)
  /\ HasKey(template.Resources, HttpApiLogGroup \o SubscriptionSuffix)
  /\ cliLog[Len(cliLog)] = ExtensionWarning

ExecutionKeys ==
  { REST_EXECUTION_LOG_GROUP_KEY, REST_EXECUTION_SUBSCRIPTION_KEY,
    WEBSOCKETS_EXECUTION_LOG_GROUP_KEY, WEBSOCKETS_EXECUTION_SUBCRIPTION_KEY }

\* the pair of a category is in the graph: a log group named by the join
\* over the API reference and the stage, and a subscription that references
\* it by its fixed logical id
HasExecutionPair(resources, groupKey, subscriptionKey, prefix, api) ==
  /\ HasKey(resources, groupKey)
  /\ Lookup(resources, groupKey) =
       [Type |-> "AWS::Logs::LogGroup",
        Properties |-> [LogGroupName |->
          [t |-> "object", FnJoin |-> <<"", <<prefix, [Ref |-> api], "/", StageName>> >>]]]
  /\ HasKey(resources, subscriptionKey)
  /\ Lookup(resources, subscriptionKey) =
       [Type |-> "AWS::Logs::SubscriptionFilter",
        Properties |-> [DestinationArn |-> functionArn, FilterPattern |-> <<>>,
                        LogGroupName |-> [t |-> "object", Ref |-> groupKey]]]

\* every key outside `keys` is in both graphs, with the same resource at the
\* same place
SameOutside(before, after, keys) ==
  /\ KeysOf(after) \ keys = KeysOf(before) \ keys
  /\ \A i \in 1..Len(before) :
       before[i].name \notin keys => (i <= Len(after) /\ after[i] = before[i])

\* the synthesizer returned normally from a call made in the current pass
SynthesizerReturned == synthCalls = 1 /\ pc \in {"log", "done"}

\* what one call of the synthesizer does to a graph that is present
SynthesizerStepEffect ==
  (synthCalls' = synthCalls + 1 /\ template.defined) =>
    /\ template'.defined
    /\ SameOutside(template.Resources, template'.Resources, ExecutionKeys)
    /\ ~(logs \in LogsConfigs /\ FlagExpected(logs, "restApi", "executionLogging")) =>
         SameOutside(template.Resources, template'.Resources,
                     {WEBSOCKETS_EXECUTION_LOG_GROUP_KEY, WEBSOCKETS_EXECUTION_SUBCRIPTION_KEY})
    /\ ~(logs \in LogsConfigs /\ FlagExpected(logs, "websocket", "executionLogging")) =>
         SameOutside(template.Resources, template'.Resources,
                     {REST_EXECUTION_LOG_GROUP_KEY, REST_EXECUTION_SUBSCRIPTION_KEY})

\* the pairs of the enabled categories are in the graph once the synthesizer
\* has returned; it is called only when execution logs are to be subscribed
SynthesizerResult ==
  /\ synthCalls > 0 => forwarderConfigs.SubToExecutionLogGroups
  /\ (SynthesizerReturned /\ template.defined /\ logs \in LogsConfigs) =>
       /\ FlagExpected(logs, "restApi", "executionLogging") =>
            HasExecutionPair(template.Resources, REST_EXECUTION_LOG_GROUP_KEY,
                             REST_EXECUTION_SUBSCRIPTION_KEY,
                             "API-Gateway-Execution-Logs_", "ApiGatewayRestApi")
       /\ FlagExpected(logs, "websocket", "executionLogging") =>
            HasExecutionPair(template.Resources, WEBSOCKETS_EXECUTION_LOG_GROUP_KEY,
                             WEBSOCKETS_EXECUTION_SUBCRIPTION_KEY,
                             "/aws/apigateway/", "WebsocketsApi")

\* C16: called (when execution logs are to be subscribed) on a present graph,
\* addExecutionLogGroupsAndSubscriptions inserts the pair of each category,
\* REST and WebSocket, whose execution logging is enabled: the log group named
\* by Fn::Join over the API reference and the stage, the subscription
\* referencing the log group by its fixed logical id; every other key of the
\* graph keeps its resource and its place, and the pair of a category that is
\* not enabled is not touched.
C16_SynthesizerInsertsItsPairsOnly ==
  []SynthesizerResult /\ [][SynthesizerStepEffect]_vars

\* both categories were enabled and the synthesizer added four keys to the
\* graph the engine left, which holds a subscription of the engine's
C16_Witness ==
  /\ SynthesizerReturned
  /\ template.defined
  /\ FlagExpected(logs, "restApi", "executionLogging")
  /\ FlagExpected(logs, "websocket", "executionLogging")
  /\ ExecutionKeys \subseteq KeysOf(template.Resources)
  /\ ExecutionKeys \cap KeysOf(templateAtStart.Resources) = {}
  /\ \E d \in 1..Len(decisions) : decisions[d].allowed
  /\ Len(template.Resources) > Len(templateAtStart.Resources) + 4

\* remote calls issued and not yet answered
Outstanding ==
  (IF pc = "getFunction" THEN 1 ELSE 0) + (IF pc = "describe" THEN 1 ELSE 0)

IsEligibleEntry(e) ==
  shouldSubscribe(e.name, e.resource, forwarderConfigs, handlers, logs)

\* the eligible entries among those the loop has gone past, in graph order
EligibleProcessed == SelectSeq(SubSeq(entries, 1, idx - 1), IsEligibleEntry)

IsLogsRequest(r) == r.service = "CloudWatchLogs"
LogsRequestSeq == SelectSeq(requests, IsLogsRequest)

IsRejected(d) == ~d.allowed
RejectedDecisions == SelectSeq(decisions, IsRejected)

DecisionLogGroupName(d) ==
  LiteralName(entries[CHOOSE j \in 1..Len(entries) : entries[j].name = d.name])

\* C17: in one pass at most one remote call is outstanding; the existence
\* query, when made, is the first request and is answered before any
\* log-service query is issued; the answered log-service queries are, in
\* order, one for each eligible log group the loop has gone past (so none for
\* a resource that is no log group, has an intrinsic name or is ineligible),
\* and a query is outstanding only for the eligible entry the loop is at; the
\* warnings are the skip-validation warning, if any, followed by one quota
\* warning per rejected log group in graph order.
C17_SequentialInGraphOrder ==
  LET eligible == EligibleProcessed
      answered == LogsRequestSeq
      rejected == RejectedDecisions
  IN  /\ Outstanding <= 1
      /\ pc = "getFunction" => (requests = <<>> /\ idx = 1)
      /\ \A i \in LambdaRequests : i = 1
      /\ \A k \in 1..Len(eligible) : IsLiteralLogGroup(eligible[k])
      /\ [k \in 1..Len(answered) |-> answered[k].target]
           = [k \in 1..Len(eligible) |-> LiteralName(eligible[k])]
      /\ [k \in 1..Len(decisions) |-> decisions[k].name]
           = [k \in 1..Len(eligible) |-> eligible[k].name]
      /\ pc = "describe" => (idx <= Len(entries) /\ IsEligibleEntry(CurrentEntry))
      /\ \A j \in 1..Len(entries) :
           (Decided(j) /\ ~IsLiteralLogGroup(entries[j])) => ~FoundEligible(j)
      /\ (EngineCalled /\ templateAtStart.defined) =>
           errors = skipValidationErrors(functionArn, forwarderConfigs)
                      \o [k \in 1..Len(rejected) |->
                            [text |-> "Could not subscribe Datadog Forwarder due to too many existing subscription filter(s) for ${logGroupName}.",
                             logGroupName |-> DecisionLogGroupName(rejected[k])]]

\* the destination was an intrinsic expression and both log groups of the
\* graph were rejected: three warnings, the skip warning first
C17_Witness ==
  /\ pc = "returned"
  /\ Len(entries) = 2
  /\ Len(requests) = 2
  /\ requests[1].target = LiteralName(entries[1])
  /\ requests[2].target = LiteralName(entries[2])
  /\ Len(errors) = 3
  /\ errors[1] = SkipCloudFormationWarning
  /\ errors[2].logGroupName = LiteralName(entries[1])
  /\ errors[3].logGroupName = LiteralName(entries[2])

\* C18: a hook invocation that follows an ended one, with the configuration,
\* the handlers and the destination unchanged and the log service answering
\* for each log group as it did before, leaves the graph as the invocation
\* before it left it, at every point of the engine and after the
\* synthesizer: the same keys in the same order with the same resources, no
\* key twice, and no subscription of a subscription of the execution log
\* groups.
C18_SecondRunChangesNothing ==
  rerun.ended =>
    /\ template = templateAtStart
    /\ Cardinality(KeysOf(template.Resources)) = Len(template.Resources)
    /\ ~HasKey(template.Resources, REST_EXECUTION_SUBSCRIPTION_KEY \o SubscriptionSuffix)
    /\ ~HasKey(template.Resources, WEBSOCKETS_EXECUTION_SUBCRIPTION_KEY \o SubscriptionSuffix)
    /\ \A d \in 1..Len(decisions) :
         /\ HasKey(templateAtStart.Resources, decisions[d].name)
         /\ isLogGroup(Lookup(templateAtStart.Resources, decisions[d].name))
         /\ decisions[d].allowed =>
              HasKey(templateAtStart.Resources, decisions[d].name \o SubscriptionSuffix)

\* a second invocation ended: its engine subscribed a log group again and
\* its synthesizer ran over the execution log groups of the first
C18_Witness ==
  /\ rerun.ended
  /\ pc = "done"
  /\ synthCalls = 1
  /\ ExecutionKeys \subseteq KeysOf(template.Resources)
  /\ \E d \in 1..Len(decisions) :
       /\ decisions[d].allowed
       /\ Lookup(template.Resources, decisions[d].name \o SubscriptionSuffix)
            = ExpectedSubscription(decisions[d].name)
  /\ Len(template.Resources) >= 6

\* C19: the engine leaves every entry that was in the graph before the pass
\* in the graph with the resource it had (so every LogGroup stays the
\* LogGroup it was), and every SubscriptionFilter it inserted references by
\* Ref a logical id that names a LogGroup in the graph.
C19_EngineOnlyAddsNewKeys ==
  /\ \A i \in 1..Len(templateAtStart.Resources) :
       /\ HasKey(template.Resources, templateAtStart.Resources[i].name)
       /\ Lookup(template.Resources, templateAtStart.Resources[i].name)
            = templateAtStart.Resources[i].resource
  /\ \A d \in 1..Len(decisions) :
       decisions[d].allowed =>
         /\ HasKey(template.Resources, decisions[d].name \o SubscriptionSuffix)
         /\ Lookup(template.Resources, decisions[d].name \o SubscriptionSuffix)
              .Properties.LogGroupName = Ref(decisions[d].name)
         /\ HasKey(template.Resources, decisions[d].name)
         /\ isLogGroup(Lookup(template.Resources, decisions[d].name))

====
